---- MODULE Spec2Model ----
(***************************************************************************)
(* Model of src/wrapper.c: print_out renders a printf-style template into  *)
(* a malloc'ed buffer, retries with the measured size when the buffer is   *)
(* too small, and hands the buffer to the sink ipset_out.                  *)
(*                                                                         *)
(* Bytes are one-character strings.  NUL is the terminator vsnprintf       *)
(* writes; UNINIT marks a byte of a malloc'ed buffer nothing has written.  *)
(***************************************************************************)
EXTENDS Integers, Sequences, FiniteSets, TLC

\* Number of print_out calls explored in one behaviour.
MaxCalls == 2

\* int length = 1024;
InitialCapacity == 1024

NUL == "NUL"
UNINIT == "UNINIT"

\* Negative values the formatting primitive may return on an encoding error.
NegCodes == {-1, -2}

Lit(k, c) == [i \in 1..k |-> c]

(***************************************************************************)
(* The calls explored: (template, arguments) pairs, named by an index.     *)
(***************************************************************************)
InputIds == 1..7

CartFmt == <<"%","s"," ","h","a","s"," ","%","d"," ","i","t","e","m","s">>

Fmt(i) ==
  CASE i = 1 -> << >>
    [] i = 2 -> CartFmt
    [] i = 3 -> Lit(1023, "x")
    [] i = 4 -> <<"%","s","!">>
    [] i = 5 -> <<"%","d">> \o Lit(1020, "y") \o <<"%","s">>
    [] i = 6 -> Lit(2000, "z")
    [] i = 7 -> <<"i","d","=","%","d"," ","%","S">>

Args(i) ==
  CASE i = 2 -> <<[t |-> "s", v |-> <<"c","a","r","t">>], [t |-> "d", v |-> 3]>>
    [] i = 4 -> <<[t |-> "s", v |-> Lit(1023, "a")]>>
    [] i = 5 -> <<[t |-> "d", v |-> -42], [t |-> "s", v |-> <<"o","k">>]>>
    [] i = 7 -> <<[t |-> "d", v |-> 7], [t |-> "S", v |-> "invalid"]>>
    [] OTHER -> << >>

CartInput == CHOOSE i \in InputIds : Fmt(i) = CartFmt

\* The (input, context) pairs print_out is called with.
CallSet == (InputIds \X {"ctxA"}) \cup ({CartInput} \X {"ctxB"})

(***************************************************************************)
(* The formatting primitive (vsnprintf), for the conversions %s, %d and    *)
(* %S (a wide string, whose conversion fails on an invalid sequence).      *)
(***************************************************************************)
Digit(k) == <<"0","1","2","3","4","5","6","7","8","9">>[k + 1]

RECURSIVE Dec(_)
Dec(k) == IF k < 10 THEN <<Digit(k)>> ELSE Dec(k \div 10) \o <<Digit(k % 10)>>

ConvD(v) == IF v < 0 THEN <<"-">> \o Dec(-v) ELSE Dec(v)

\* The rendering of one conversion: [ok, out].
Conv(c, a) ==
  CASE c = "s" -> [ok |-> TRUE, out |-> a.v]
    [] c = "d" -> [ok |-> TRUE, out |-> ConvD(a.v)]
    [] OTHER   -> [ok |-> FALSE, out |-> << >>]

MinOf(S) == CHOOSE x \in S : \A y \in S : x <= y

\* The full rendering of template f with arguments a: [ok, out].
RECURSIVE Format(_, _)
Format(f, a) ==
  LET pct == {i \in 1..Len(f) : f[i] = "%"} IN
  IF pct = {} THEN [ok |-> TRUE, out |-> f]
  ELSE LET i    == MinOf(pct)
           c    == Conv(f[i + 1], Head(a))
           rest == Format(SubSeq(f, i + 2, Len(f)), Tail(a))
       IN  IF c.ok /\ rest.ok
           THEN [ok |-> TRUE, out |-> SubSeq(f, 1, i - 1) \o c.out \o rest.out]
           ELSE [ok |-> FALSE, out |-> << >>]

\* The full rendering of every input explored.
RenderTable == [i \in InputIds |-> Format(Fmt(i), Args(i))]

Rendered(i) == Format(Fmt(i), Args(i)).out
FullLen(i) == Len(Rendered(i))
Renders(i) == Format(Fmt(i), Args(i)).ok

\* What vsnprintf(buf, cap, ...) leaves in buf when the rendering is r:
\* at most cap-1 characters of r, then the terminator.
VsnprintfWrite(buf, cap, r) ==
  LET k == IF Len(r) < cap - 1 THEN Len(r) ELSE cap - 1 IN
  [j \in 1..Len(buf) |->
     IF cap = 0 THEN buf[j]
     ELSE IF j <= k THEN r[j]
     ELSE IF j = k + 1 THEN NUL
     ELSE buf[j]]

(***************************************************************************)
(* State.  pc is the position inside print_out ("idle": no call running).  *)
(* inp, p, length, running, data, n are print_out's parameters and locals; *)
(* heap is the allocator's record of every block malloc returned; sinkLog  *)
(* records the invocations of ipset_out and retLog the returns of          *)
(* print_out; trace lists (capacity, result) of the running call's render  *)
(* attempts.                                                               *)
(***************************************************************************)
VARIABLES pc, calls, inp, p, length, running, data, n, trace, heap, sinkLog, retLog

vars == <<pc, calls, inp, p, length, running, data, n, trace, heap, sinkLog, retLog>>

Init ==
  /\ pc = "idle"
  /\ calls = 0
  /\ inp = 0
  /\ p = "none"
  /\ length = 0
  /\ running = 0
  /\ data = 0
  /\ n = 0
  /\ trace = << >>
  /\ heap = << >>
  /\ sinkLog = << >>
  /\ retLog = << >>

\* free(ptr)
Free(h, ptr) ==
  [h EXCEPT ![ptr].live = FALSE, ![ptr].frees = @ + 1, ![ptr].bytes = << >>]

\* A return statement of print_out with value v; how names the statement.
Return(v, how) ==
  /\ retLog' = Append(retLog, [call |-> calls, inp |-> inp, p |-> p, ret |-> v,
                               how |-> how, trace |-> trace, data |-> data])
  /\ pc' = "idle"

\* Call with length kept from the previous call (a static local).
CallKeepsLength(i, ctx) ==
  /\ pc = "idle"
  /\ calls < MaxCalls
  /\ calls' = calls + 1
  /\ inp' = i
  /\ p' = ctx
  /\ length' = IF calls = 0 THEN InitialCapacity ELSE length
  /\ running' = 1
  /\ data' = 0
  /\ n' = 0
  /\ trace' = << >>
  /\ pc' = "malloc"
  /\ UNCHANGED <<heap, sinkLog, retLog>>

\* Call starting from half the initial capacity.
CallHalfCapacity(i, ctx) ==
  /\ pc = "idle"
  /\ calls < MaxCalls
  /\ calls' = calls + 1
  /\ inp' = i
  /\ p' = ctx
  /\ length' = InitialCapacity \div 2
  /\ running' = 1
  /\ data' = 0
  /\ n' = 0
  /\ trace' = << >>
  /\ pc' = "malloc"
  /\ UNCHANGED <<heap, sinkLog, retLog>>

\* Entry of print_out(session, p, fmt, ...): the declarations of lines 11-13.
Call(i, ctx) ==
  /\ pc = "idle"
  /\ calls < MaxCalls
  /\ calls' = calls + 1
  /\ inp' = i
  /\ p' = ctx
  /\ length' = InitialCapacity
  /\ running' = 1
  /\ data' = 0
  /\ n' = 0
  /\ trace' = << >>
  /\ pc' = "malloc"
  /\ UNCHANGED <<heap, sinkLog, retLog>>

\* char *data = malloc(length); with data != NULL
MallocOk ==
  /\ pc = "malloc"
  /\ heap' = Append(heap, [call |-> calls, size |-> length, live |-> TRUE,
                           frees |-> 0, bytes |-> Lit(length, UNINIT)])
  /\ data' = Len(heap) + 1
  /\ pc' = "vsnprintf"
  /\ UNCHANGED <<calls, inp, p, length, running, n, trace, sinkLog, retLog>>

\* MallocFail returning the candidate capacity instead of 0.
MallocFailReturnsLength ==
  /\ pc = "malloc"
  /\ data' = 0
  /\ Return(length, "nomem")
  /\ UNCHANGED <<calls, inp, p, length, running, n, trace, heap, sinkLog>>

\* char *data = malloc(length); if (data == NULL) return 0;
MallocFail ==
  /\ pc = "malloc"
  /\ data' = 0
  /\ Return(0, "nomem")
  /\ UNCHANGED <<calls, inp, p, length, running, n, trace, heap, sinkLog>>

\* int n = vsnprintf(data, length, fmt, args);
Vsnprintf ==
  /\ pc = "vsnprintf"
  /\ \E code \in NegCodes, r \in {RenderTable[inp]} :
       /\ n' = IF r.ok THEN Len(r.out) ELSE code
       /\ heap' = IF r.ok
                  THEN [heap EXCEPT ![data].bytes = VsnprintfWrite(@, length, r.out)]
                  ELSE heap
       /\ trace' = Append(trace, [cap |-> length, n |-> n'])
  /\ pc' = "check"
  /\ UNCHANGED <<calls, inp, p, length, running, data, sinkLog, retLog>>

\* EncodingError returning 0.
EncodingErrorReturnsZero ==
  /\ pc = "check"
  /\ n < 0
  /\ heap' = Free(heap, data)
  /\ Return(0, "enc")
  /\ UNCHANGED <<calls, inp, p, length, running, data, n, trace, sinkLog>>

\* EncodingError returning -1 whatever the primitive returned.
EncodingErrorReturnsMinusOne ==
  /\ pc = "check"
  /\ n < 0
  /\ heap' = Free(heap, data)
  /\ Return(-1, "enc")
  /\ UNCHANGED <<calls, inp, p, length, running, data, n, trace, sinkLog>>

\* if (n < 0) { free(data); return n; }
EncodingError ==
  /\ pc = "check"
  /\ n < 0
  /\ heap' = Free(heap, data)
  /\ Return(n, "enc")
  /\ UNCHANGED <<calls, inp, p, length, running, data, n, trace, sinkLog>>

\* Fit taken for every non-negative n, whatever the capacity.
FitIgnoresCapacity ==
  /\ pc = "check"
  /\ ~(n < 0)
  /\ sinkLog' = Append(sinkLog,
       [call |-> calls, inp |-> inp, attempt |-> Len(trace), p |-> p, ptr |-> data,
        len |-> n, cap |-> length,
        out |-> SubSeq(heap[data].bytes, 1, IF n <= length THEN n ELSE length),
        live |-> heap[data].live, size |-> heap[data].size])
  /\ running' = 0
  /\ length' = n
  /\ pc' = "while"
  /\ UNCHANGED <<calls, inp, p, data, n, trace, heap, retLog>>

\* Fit passing another pointer than p as the sink's context.
FitPassesSession ==
  /\ pc = "check"
  /\ ~(n < 0)
  /\ n <= length
  /\ sinkLog' = Append(sinkLog,
       [call |-> calls, inp |-> inp, attempt |-> Len(trace), p |-> "session", ptr |-> data,
        len |-> n, cap |-> length,
        out |-> SubSeq(heap[data].bytes, 1, n),
        live |-> heap[data].live, size |-> heap[data].size])
  /\ running' = 0
  /\ length' = n
  /\ pc' = "while"
  /\ UNCHANGED <<calls, inp, p, data, n, trace, heap, retLog>>

\* Fit without "running = 0".
FitKeepsRunning ==
  /\ pc = "check"
  /\ ~(n < 0)
  /\ n <= length
  /\ sinkLog' = Append(sinkLog,
       [call |-> calls, inp |-> inp, attempt |-> Len(trace), p |-> p, ptr |-> data,
        len |-> n, cap |-> length,
        out |-> SubSeq(heap[data].bytes, 1, n),
        live |-> heap[data].live, size |-> heap[data].size])
  /\ running' = 1
  /\ length' = n
  /\ pc' = "while"
  /\ UNCHANGED <<calls, inp, p, data, n, trace, heap, retLog>>

\* Fit without "length = n".
FitKeepsLength ==
  /\ pc = "check"
  /\ ~(n < 0)
  /\ n <= length
  /\ sinkLog' = Append(sinkLog,
       [call |-> calls, inp |-> inp, attempt |-> Len(trace), p |-> p, ptr |-> data,
        len |-> n, cap |-> length,
        out |-> SubSeq(heap[data].bytes, 1, n),
        live |-> heap[data].live, size |-> heap[data].size])
  /\ running' = 0
  /\ length' = length
  /\ pc' = "while"
  /\ UNCHANGED <<calls, inp, p, data, n, trace, heap, retLog>>

\* Fit with the sink's len and cap arguments swapped.
FitSwapsLenCap ==
  /\ pc = "check"
  /\ ~(n < 0)
  /\ n <= length
  /\ sinkLog' = Append(sinkLog,
       [call |-> calls, inp |-> inp, attempt |-> Len(trace), p |-> p, ptr |-> data,
        len |-> length, cap |-> n,
        out |-> SubSeq(heap[data].bytes, 1, length),
        live |-> heap[data].live, size |-> heap[data].size])
  /\ running' = 0
  /\ length' = n
  /\ pc' = "while"
  /\ UNCHANGED <<calls, inp, p, data, n, trace, heap, retLog>>

\* else if (n <= length) { ipset_out(p, data, n, length); running = 0; length = n; }
\* n and length are non-negative ints here, so their conversion to uint32_t
\* keeps their values.
Fit ==
  /\ pc = "check"
  /\ ~(n < 0)
  /\ n <= length
  /\ sinkLog' = Append(sinkLog,
       [call |-> calls, inp |-> inp, attempt |-> Len(trace), p |-> p, ptr |-> data,
        len |-> n, cap |-> length,
        out |-> SubSeq(heap[data].bytes, 1, n),
        live |-> heap[data].live, size |-> heap[data].size])
  /\ running' = 0
  /\ length' = n
  /\ pc' = "while"
  /\ UNCHANGED <<calls, inp, p, data, n, trace, heap, retLog>>

\* Miss growing the capacity by a fixed step instead of to n.
MissGrowsByStep ==
  /\ pc = "check"
  /\ ~(n < 0)
  /\ ~(n <= length)
  /\ length' = length + InitialCapacity \div 2
  /\ heap' = Free(heap, data)
  /\ pc' = "while"
  /\ UNCHANGED <<calls, inp, p, running, data, n, trace, sinkLog, retLog>>

\* Miss without free(data).
MissNoFree ==
  /\ pc = "check"
  /\ ~(n < 0)
  /\ ~(n <= length)
  /\ length' = n
  /\ heap' = heap
  /\ pc' = "while"
  /\ UNCHANGED <<calls, inp, p, running, data, n, trace, sinkLog, retLog>>

\* else { length = n; free(data); }
Miss ==
  /\ pc = "check"
  /\ ~(n < 0)
  /\ ~(n <= length)
  /\ length' = n
  /\ heap' = Free(heap, data)
  /\ pc' = "while"
  /\ UNCHANGED <<calls, inp, p, running, data, n, trace, sinkLog, retLog>>

\* } while (running);   -- the condition holds: next iteration
Loop ==
  /\ pc = "while"
  /\ running # 0
  /\ pc' = "malloc"
  /\ UNCHANGED <<calls, inp, p, length, running, data, n, trace, heap, sinkLog, retLog>>

\* } while (running); return length;
ReturnLength ==
  /\ pc = "while"
  /\ running = 0
  /\ Return(length, "ok")
  /\ UNCHANGED <<calls, inp, p, length, running, data, n, trace, heap, sinkLog>>

Next ==
  \/ \E c \in CallSet : Call(c[1], c[2])
  \/ MallocOk
  \/ MallocFail
  \/ Vsnprintf
  \/ EncodingError
  \/ Fit
  \/ Miss
  \/ Loop
  \/ ReturnLength

Spec == Init /\ [][Next]_vars

(***************************************************************************)
(* A second specification, in which the string argument of "%s!" is        *)
(* changed by its owner between render attempts, so that the length the    *)
(* formatting primitive reports differs from one attempt to the next.      *)
(***************************************************************************)
VarFmt == <<"%","s","!">>

VarInput == CHOOSE i \in InputIds : Fmt(i) = VarFmt

BadInput == CHOOSE i \in InputIds : ~Renders(i)

\* The lengths the string argument may have at an attempt.
VarLens == {5, 1023, 1024, 1500}

VarTable == [k \in VarLens |-> Format(VarFmt, <<[t |-> "s", v |-> Lit(k, "v")]>>)]

VarCallSet == {VarInput, BadInput} \X {"ctxA"}

\* int n = vsnprintf(data, length, fmt, args); with the argument as it is now
VolatileVsnprintf ==
  /\ pc = "vsnprintf"
  /\ \E code \in NegCodes,
        r \in IF inp = VarInput THEN {VarTable[k] : k \in VarLens} ELSE {RenderTable[inp]} :
       /\ n' = IF r.ok THEN Len(r.out) ELSE code
       /\ heap' = IF r.ok
                  THEN [heap EXCEPT ![data].bytes = VsnprintfWrite(@, length, r.out)]
                  ELSE heap
       /\ trace' = Append(trace, [cap |-> length, n |-> n'])
  /\ pc' = "check"
  /\ UNCHANGED <<calls, inp, p, length, running, data, sinkLog, retLog>>

VarNext ==
  \/ \E c \in VarCallSet : Call(c[1], c[2])
  \/ MallocOk
  \/ MallocFail
  \/ VolatileVsnprintf
  \/ EncodingError
  \/ Fit
  \/ Miss
  \/ Loop
  \/ ReturnLength

VarSpec == Init /\ [][VarNext]_vars

\* The steps of a running call.  print_out is straight-line synchronous
\* code: once entered, it keeps executing until it returns.
Step ==
  \/ MallocOk
  \/ MallocFail
  \/ Vsnprintf
  \/ EncodingError
  \/ Fit
  \/ Miss
  \/ Loop
  \/ ReturnLength

FairSpec == Init /\ [][Next]_vars /\ WF_vars(Step)

TypeOK ==
  /\ pc \in {"idle", "malloc", "vsnprintf", "check", "while"}
  /\ calls \in 0..MaxCalls
  /\ running \in {0, 1}

(***************************************************************************)
(* Vocabulary of the properties.                                           *)
(***************************************************************************)
Returns == 1..Len(retLog)

\* The sink invocations made by call k.
SinksOf(k) == {j \in 1..Len(sinkLog) : sinkLog[j].call = k}

\* The call of return record r ended in success: no allocation failed and
\* no render attempt returned a negative result.
Succeeded(r) == r.how # "nomem" /\ \A a \in 1..Len(r.trace) : r.trace[a].n >= 0

Attempts(r) == Len(r.trace)

\* C1: whenever the sink is invoked, the first len bytes of the buffer are
\* the complete rendering of the call's template with its arguments.
C1_SinkGetsFullRendering ==
  \A j \in 1..Len(sinkLog) :
    /\ sinkLog[j].len = FullLen(sinkLog[j].inp)
    /\ sinkLog[j].out = Rendered(sinkLog[j].inp)

\* C2: every call invokes the sink at most once, and exactly once when it
\* ends in success, whatever the number of attempts.
C2_SinkOnce ==
  /\ \A k \in 1..calls : Cardinality(SinksOf(k)) <= 1
  /\ \A j \in Returns :
       Succeeded(retLog[j]) => Cardinality(SinksOf(retLog[j].call)) = 1

C2_Witness ==
  \E j \in Returns :
    /\ Succeeded(retLog[j])
    /\ Attempts(retLog[j]) = 2
    /\ Cardinality(SinksOf(retLog[j].call)) = 1

\* C3: when a call has returned, no buffer it allocated is still allocated.
C3_NoBufferOutlivesCall ==
  \A j \in Returns :
    \A b \in 1..Len(heap) : heap[b].call = retLog[j].call => ~heap[b].live

\* C4: a call in which an allocation fails returns 0 and has not invoked
\* the sink.
C4_AllocFailure ==
  \A j \in Returns :
    retLog[j].how = "nomem" =>
      /\ retLog[j].ret = 0
      /\ SinksOf(retLog[j].call) = {}

C4_Witness ==
  \E j \in Returns :
    /\ retLog[j].how = "nomem"
    /\ Attempts(retLog[j]) = 1
    /\ retLog[j].ret = 0

\* C5: a negative result of the formatting primitive ends the call: the
\* call returns that result, has not invoked the sink, and the attempt's
\* buffer is freed.
C5_EncodingError ==
  /\ \A a \in 1..Len(trace) : trace[a].n < 0 => pc \in {"check", "idle"}
  /\ \A j \in Returns :
       LET r == retLog[j] IN
       (Attempts(r) > 0 /\ r.trace[Attempts(r)].n < 0) =>
         /\ r.ret = r.trace[Attempts(r)].n
         /\ SinksOf(r.call) = {}
         /\ r.data \in 1..Len(heap)
         /\ heap[r.data].call = r.call
         /\ ~heap[r.data].live

C5_Witness ==
  \E j \in Returns :
    /\ retLog[j].how = "enc"
    /\ retLog[j].ret = -2
    /\ ~heap[retLog[j].data].live

\* C6: on success the returned value is the fully-rendered length and is
\* the len passed to the sink.
C6_ReturnsLength ==
  \A j \in Returns :
    Succeeded(retLog[j]) =>
      /\ retLog[j].ret = FullLen(retLog[j].inp)
      /\ SinksOf(retLog[j].call) # {}
      /\ \A s \in SinksOf(retLog[j].call) : sinkLog[s].len = retLog[j].ret

C6_Witness ==
  \E i, j \in Returns :
    /\ Succeeded(retLog[i]) /\ Attempts(retLog[i]) = 2
    /\ retLog[i].ret = 2000
    /\ Succeeded(retLog[j]) /\ retLog[j].ret = 0

\* C7: two successful calls with the same template and arguments invoke
\* the sink once each, with the same len and the same (fully written)
\* first len bytes, and return the same result.
C7_Repeatable ==
  \A i, j \in Returns :
    (i < j /\ retLog[i].inp = retLog[j].inp
       /\ Succeeded(retLog[i]) /\ Succeeded(retLog[j])) =>
      /\ retLog[i].ret = retLog[j].ret
      /\ Cardinality(SinksOf(retLog[i].call)) = 1
      /\ Cardinality(SinksOf(retLog[j].call)) = 1
      /\ \A s \in SinksOf(retLog[i].call), t \in SinksOf(retLog[j].call) :
           /\ sinkLog[s].len = sinkLog[t].len
           /\ sinkLog[s].out = sinkLog[t].out
           /\ \A b \in 1..Len(sinkLog[s].out) : sinkLog[s].out[b] # UNINIT

C7_Witness ==
  \E i, j \in Returns :
    /\ i < j /\ retLog[i].inp = retLog[j].inp
    /\ Succeeded(retLog[i]) /\ Succeeded(retLog[j])
    /\ retLog[i].p # retLog[j].p
    /\ \E s \in SinksOf(retLog[i].call), t \in SinksOf(retLog[j].call) :
         sinkLog[s].ptr # sinkLog[t].ptr /\ sinkLog[s].out = sinkLog[t].out

CartText == <<"c","a","r","t"," ","h","a","s"," ","3"," ","i","t","e","m","s">>

\* C8 as stated: "%s has %d items" with ("cart", 3) gives one sink
\* invocation with "cart has 3 items", len 17, cap >= 17, and returns 17.
C8_Original ==
  \A j \in Returns :
    (retLog[j].inp = CartInput /\ Succeeded(retLog[j])) =>
      /\ retLog[j].ret = 17
      /\ Cardinality(SinksOf(retLog[j].call)) = 1
      /\ \A s \in SinksOf(retLog[j].call) :
           /\ sinkLog[s].len = 17
           /\ sinkLog[s].cap >= 17
           /\ SubSeq(sinkLog[s].out, 1, 16) = CartText

\* C8 amended: "%s has %d items" with ("cart", 3) gives one sink
\* invocation with "cart has 3 items", len 16, cap >= 17, and returns 16.
C8_Cart ==
  \A j \in Returns :
    (retLog[j].inp = CartInput /\ Succeeded(retLog[j])) =>
      /\ retLog[j].ret = 16
      /\ Cardinality(SinksOf(retLog[j].call)) = 1
      /\ \A s \in SinksOf(retLog[j].call) :
           /\ sinkLog[s].len = 16
           /\ sinkLog[s].cap >= 17
           /\ sinkLog[s].out = CartText

C8_Witness ==
  \E j \in Returns :
    /\ retLog[j].inp = CartInput
    /\ retLog[j].how = "ok"
    /\ \E s \in SinksOf(retLog[j].call) : sinkLog[s].out = CartText

\* C9: a successful call whose rendering has length >= 1024 makes at least
\* two render attempts and invokes the sink exactly once.
C9_LongNeedsTwoAttempts ==
  \A j \in Returns :
    (Succeeded(retLog[j]) /\ FullLen(retLog[j].inp) >= 1024) =>
      /\ Attempts(retLog[j]) >= 2
      /\ Cardinality(SinksOf(retLog[j].call)) = 1

\* C10: a call whose rendering has length < 1024, with no allocation
\* failure, makes exactly one render attempt, with capacity 1024, and
\* invokes the sink in that attempt.
C10_ShortOneAttempt ==
  \A j \in Returns :
    LET r == retLog[j] IN
    (r.how # "nomem" /\ Renders(r.inp) /\ FullLen(r.inp) < 1024) =>
      /\ Attempts(r) = 1
      /\ r.trace[1].cap = 1024
      /\ Cardinality(SinksOf(r.call)) = 1
      /\ \A s \in SinksOf(r.call) : sinkLog[s].attempt = 1 /\ sinkLog[s].cap = 1024

C10_Witness ==
  \E j \in Returns :
    /\ retLog[j].how = "ok"
    /\ FullLen(retLog[j].inp) = 1023
    /\ Attempts(retLog[j]) = 1

\* The blocks call k allocated.
BlocksOf(k) == {b \in 1..Len(heap) : heap[b].call = k}

\* C11: after a capacity miss that reported n the next attempt allocates
\* exactly n bytes; a template of 2000 literal characters takes exactly two
\* attempts, with capacities 1024 then 2000, and the sink is invoked once
\* with the full 2000-character string.
C11_RetrySizeAndLongLiteral ==
  /\ \A a \in 2..Len(trace) : trace[a].cap = trace[a - 1].n
  /\ \A j \in Returns :
       LET r == retLog[j] IN
       (Succeeded(r) /\ Fmt(r.inp) = Lit(2000, "z")) =>
         /\ Attempts(r) = 2
         /\ r.trace[1].cap = 1024
         /\ r.trace[2].cap = 2000
         /\ Cardinality(SinksOf(r.call)) = 1
         /\ \A s \in SinksOf(r.call) :
              sinkLog[s].len = 2000 /\ sinkLog[s].out = Lit(2000, "z")

\* C13: at every point of a call at most one buffer allocated by that call
\* is live; a missed attempt's buffer is freed before the next allocation;
\* no buffer is freed twice, and none is passed to the sink after its free.
C13_OneLiveBuffer ==
  /\ \A k \in 1..calls : Cardinality({b \in BlocksOf(k) : heap[b].live}) <= 1
  /\ (pc = "malloc") => \A b \in BlocksOf(calls) : ~heap[b].live
  /\ \A b \in 1..Len(heap) : heap[b].frees <= 1 /\ (heap[b].live => heap[b].frees = 0)
  /\ \A j \in 1..Len(sinkLog) : sinkLog[j].live

C13_Witness ==
  /\ pc = "vsnprintf"
  /\ Len(trace) = 1
  /\ \E b, c \in BlocksOf(calls) :
       b < c /\ ~heap[b].live /\ heap[b].frees = 1 /\ heap[c].live /\ c = data

\* C15: in every sink invocation cap is the size of the allocation the
\* buffer pointer refers to (1024 on a first-attempt fit, the required
\* length on a retry), 0 <= len <= cap, the buffer is live, and the context
\* is the p the caller passed.
C15_SinkArguments ==
  \A j \in 1..Len(sinkLog) :
    LET s == sinkLog[j] IN
    /\ s.cap = s.size
    /\ s.ptr \in BlocksOf(s.call)
    /\ heap[s.ptr].size = s.cap
    /\ s.cap = IF s.attempt = 1 THEN 1024 ELSE FullLen(s.inp)
    /\ 0 <= s.len /\ s.len <= s.cap
    /\ s.live
    /\ s.p = IF s.call = calls THEN p ELSE retLog[s.call].p
    /\ s.p \in {c[2] : c \in CallSet}

C15_Witness ==
  \E i, j \in 1..Len(sinkLog) :
    /\ sinkLog[i].attempt = 2 /\ sinkLog[i].cap = 2000 /\ sinkLog[i].p = "ctxA"
    /\ sinkLog[j].attempt = 1 /\ sinkLog[j].cap = 1024 /\ sinkLog[j].p = "ctxB"

\* C16: a call returns 0 only when an allocation failed and the sink was
\* not invoked, or when the rendering is empty and the sink was invoked
\* once with len 0; a successful call with a non-empty rendering does not
\* return 0.
C16_ZeroResult ==
  \A j \in Returns :
    LET r == retLog[j] IN
    /\ r.ret = 0 =>
         \/ r.how = "nomem" /\ SinksOf(r.call) = {}
         \/ /\ Succeeded(r)
            /\ FullLen(r.inp) = 0
            /\ Cardinality(SinksOf(r.call)) = 1
            /\ \A s \in SinksOf(r.call) : sinkLog[s].len = 0
    /\ (Succeeded(r) /\ FullLen(r.inp) > 0) => r.ret # 0
    /\ (\E s \in SinksOf(r.call) : sinkLog[s].len > 0) => r.ret # 0

C16_Witness ==
  \E i, j \in Returns :
    /\ retLog[i].ret = 0 /\ retLog[i].how = "nomem" /\ FullLen(retLog[i].inp) = 0
    /\ retLog[j].ret = 0 /\ retLog[j].how = "ok" /\ FullLen(retLog[j].inp) = 0
    /\ SinksOf(retLog[j].call) # {}

\* C12: with the required length the same in every attempt, every call
\* terminates, after at most two render attempts, whether it ends in
\* success, allocation failure or encoding error.
C12_TerminatesInTwoAttempts ==
  /\ [](Len(trace) <= 2)
  /\ [](pc # "idle" => <>(pc = "idle" /\ Len(retLog) = calls))

C12_Witness ==
  \E i, j \in Returns :
    /\ retLog[i].how = "ok" /\ Attempts(retLog[i]) = 2
    /\ retLog[j].how \in {"nomem", "enc"} /\ Attempts(retLog[j]) = 1

\* The render attempts of call k.
TraceOf(k) == IF k <= Len(retLog) THEN retLog[k].trace ELSE trace

\* C14: when the reported length may differ from one attempt to the next,
\* the sink is still invoked at most once per call, and only in an attempt
\* whose own n fits the capacity of the buffer allocated in that attempt;
\* the sink's len and the returned value are that attempt's n.
C14_VolatileLength ==
  /\ \A k \in 1..calls : Cardinality(SinksOf(k)) <= 1
  /\ \A j \in 1..Len(sinkLog) :
       LET s  == sinkLog[j]
           tr == TraceOf(s.call)
       IN  /\ s.attempt \in 1..Len(tr)
           /\ tr[s.attempt].n <= tr[s.attempt].cap
           /\ s.len = tr[s.attempt].n
           /\ s.cap = tr[s.attempt].cap
           /\ s.size = tr[s.attempt].cap
           /\ Cardinality({b \in BlocksOf(s.call) : b <= s.ptr}) = s.attempt
           /\ s.call <= Len(retLog) => retLog[s.call].ret = tr[s.attempt].n

C14_Witness ==
  \E j \in Returns :
    LET r == retLog[j] IN
    /\ r.how = "ok"
    /\ Attempts(r) = 3
    /\ r.trace[3].n < r.trace[2].n
    /\ r.ret = r.trace[3].n
    /\ \E s \in SinksOf(r.call) : sinkLog[s].attempt = 3 /\ sinkLog[s].len = r.ret

====
